---- MODULE Spec2Model ----
(***************************************************************************)
(* Model of the voicemail pipeline of serverless-connect-voicemail:        *)
(* process (the lambda handler), its helpers, and transcribe.startJob /    *)
(* transcribe.awaitJob, with the AWS collaborators (CloudWatch Logs,       *)
(* Transcribe, axios, S3, SNS) as nondeterministic request/response calls. *)
(*                                                                         *)
(* A JavaScript string is a sequence of one-character strings wherever the *)
(* code inspects its characters (regular expressions, replace).  Fixed     *)
(* literal text that no code inspects is kept as a single element.         *)
(***************************************************************************)
EXTENDS Integers, Sequences, FiniteSets, TLC

----------------------------------------------------------------------------
(* Characters and string helpers                                           *)

Digits == {"0", "1", "2", "3", "4", "5", "6", "7", "8", "9"}

LowerCase ==
  {"a", "b", "c", "d", "e", "f", "g", "h", "i", "j", "k", "l", "m",
   "n", "o", "p", "q", "r", "s", "t", "u", "v", "w", "x", "y", "z"}

UpperCase ==
  {"A", "B", "C", "D", "E", "F", "G", "H", "I", "J", "K", "L", "M",
   "N", "O", "P", "Q", "R", "S", "T", "U", "V", "W", "X", "Y", "Z"}

\* The JavaScript values undefined and null (distinct from every string).
Undefined == <<"\\undefined">>

Null == <<"\\null">>

\* Template-literal interpolation ${v} and string concatenation '' + v.
Interpolate(v) ==
  IF v = Undefined THEN <<"u", "n", "d", "e", "f", "i", "n", "e", "d">>
  ELSE IF v = Null THEN <<"n", "u", "l", "l">>
  ELSE v

\* JavaScript falsiness of a string-or-missing value: !v.
Falsy(v) == v = Undefined \/ v = Null \/ v = <<>>

\* Positions of s holding a character of set cs.
Positions(s, cs) == {i \in 1..Len(s) : s[i] \in cs}

SetMax(S) == CHOOSE x \in S : \A y \in S : y <= x

SetMin(S) == CHOOSE x \in S : \A y \in S : x <= y

\* s.replace(/c/g, r) for a character class cs and a replacement character r.
ReplaceAll(s, cs, r) == [i \in 1..Len(s) |-> IF s[i] \in cs THEN r ELSE s[i]]

\* Decimal rendering of a non-negative integer, as `${n}` gives it.
RECURSIVE ToDecimal(_)
ToDecimal(n) ==
  LET d == <<"0", "1", "2", "3", "4", "5", "6", "7", "8", "9">>[(n % 10) + 1]
  IN IF n < 10 THEN <<d>> ELSE Append(ToDecimal(n \div 10), d)

----------------------------------------------------------------------------
(* Errors: a JavaScript Error is its name and its message.                 *)

NoError == [name |-> "none", message |-> <<>>]

MkError(name, message) == [name |-> name, message |-> message]

\* `${err}`: Error.prototype.toString.
ErrorToString(err) == <<err.name, ": ">> \o err.message

----------------------------------------------------------------------------
(* transcribe.js: pure helpers                                             *)

JobNameChars == Digits \cup LowerCase \cup UpperCase \cup {".", "_", "-"}

\* Mutant of _normalisedJobName: the dot is replaced as well.
_normalisedJobNameNoDot(jobName) ==
  [i \in 1..Len(jobName) |->
     IF jobName[i] \in JobNameChars \ {"."} THEN jobName[i] ELSE "_"]

\* jobName.replace(/[^0-9a-zA-Z._-]/g, '_')
_normalisedJobName(jobName) ==
  [i \in 1..Len(jobName) |->
     IF jobName[i] \in JobNameChars THEN jobName[i] ELSE "_"]

\* fileUri.match(/(.*[\\\/])?(.+?)\.([^.]*$|$)/): the final alternative
\* forces the matched dot to be the last dot of the string; the lazy
\* filename needs one character before it; the greedy optional path ends at
\* the last separator that still leaves a non-empty filename.  The leftmost
\* match starts at the first character.  No match: all parts stay
\* null.  (Strings hold no line terminators.)
_getFileParts(fileUri) ==
  LET dots == Positions(fileUri, {"."})
      q == IF dots = {} THEN 0 ELSE SetMax(dots)
      seps == {k \in Positions(fileUri, {"/", "\\"}) : k <= q - 2}
      k == IF seps = {} THEN 0 ELSE SetMax(seps)
  IN IF q < 2
       THEN [path |-> Null, filename |-> Null, extension |-> Null]
       ELSE [path |-> IF k = 0 THEN Undefined ELSE SubSeq(fileUri, 1, k),
             filename |-> SubSeq(fileUri, k + 1, q - 1),
             extension |-> SubSeq(fileUri, q + 1, Len(fileUri))]

----------------------------------------------------------------------------
(* sns.js (the voicemail module): pure helpers                             *)

IdChars == Digits \cup LowerCase \cup UpperCase \cup {"-"}

\* /.*\/([a-zA-Z0-9-]+)_.*/.exec(objectKey): the group is the whole run of
\* id characters after a '/', and the run must be non-empty and followed by
\* '_'; the greedy .* picks the last '/' for which that holds.  The result is
\* [ok, value]: ok = FALSE is the thrown TypeError.
IdRunEnd(key, i) ==
  LET stops == {j \in (i + 1)..Len(key) : key[j] \notin IdChars}
  IN IF stops = {} THEN Len(key) + 1 ELSE SetMin(stops)

IdSlashes(key) ==
  {i \in Positions(key, {"/"}) :
     LET j == IdRunEnd(key, i)
     IN j > i + 1 /\ j <= Len(key) /\ key[j] = "_"}

\* Mutant of contactIdFromObjectKey: the first matching '/' is taken.
contactIdFromObjectKeyFirst(objectKey) ==
  LET cands == IdSlashes(objectKey)
      i == SetMin(cands)
  IN IF cands = {}
       THEN [ok |-> FALSE,
             error |-> MkError("TypeError", <<"Unexpected objectKey format">>)]
       ELSE [ok |-> TRUE,
             value |-> SubSeq(objectKey, i + 1, IdRunEnd(objectKey, i) - 1)]

contactIdFromObjectKey(objectKey) ==
  LET cands == IdSlashes(objectKey)
      i == SetMax(cands)
  IN IF cands = {}
       THEN [ok |-> FALSE,
             error |-> MkError("TypeError", <<"Unexpected objectKey format">>)]
       ELSE [ok |-> TRUE,
             value |-> SubSeq(objectKey, i + 1, IdRunEnd(objectKey, i) - 1)]

\* The escapes decodeURIComponent is given here: %XX of an ASCII character.
\* Object keys of the model use no other well-formed escape.
PercentTable ==
  [p \in {<<"3", "A">>, <<"2", "F">>, <<"5", "F">>, <<"2", "0">>} |->
     IF p = <<"3", "A">> THEN ":"
     ELSE IF p = <<"2", "F">> THEN "/"
     ELSE IF p = <<"5", "F">> THEN "_"
     ELSE " "]

\* decodeURIComponent(s): [ok, value]; ok = FALSE is the thrown URIError
\* (a '%' not followed by two hexadecimal digits).
RECURSIVE DecodeURIComponent(_)
DecodeURIComponent(s) ==
  IF s = <<>> THEN [ok |-> TRUE, value |-> <<>>]
  ELSE IF s[1] # "%"
    THEN LET rest == DecodeURIComponent(Tail(s))
         IN IF rest.ok THEN [ok |-> TRUE, value |-> <<s[1]>> \o rest.value]
            ELSE rest
  ELSE IF Len(s) < 3 \/ SubSeq(s, 2, 3) \notin DOMAIN PercentTable
    THEN [ok |-> FALSE]
  ELSE LET rest == DecodeURIComponent(SubSeq(s, 4, Len(s)))
       IN IF rest.ok
            THEN [ok |-> TRUE,
                  value |-> <<PercentTable[SubSeq(s, 2, 3)]>> \o rest.value]
            ELSE rest

UrlHost == <<".", "s", "3", ".", "a", "m", "a", "z", "o", "n", "a", "w", "s",
             ".", "c", "o", "m", "/">>

\* getS3ObjectInfo(event.Records[0]): [ok, value]; ok = FALSE is a thrown
\* TypeError (no record) or URIError (malformed escape in the key).
getS3ObjectInfo(records) ==
  IF records = <<>>
    THEN [ok |-> FALSE,
          error |-> MkError("TypeError", <<"Cannot read property 's3' of undefined">>)]
  ELSE
    LET eventRecord == records[1]
        bucketName == eventRecord.bucket
        decoded == DecodeURIComponent(ReplaceAll(eventRecord.key, {"+"}, " "))
        objectKey == decoded.value
    IN IF ~decoded.ok
         THEN [ok |-> FALSE, error |-> MkError("URIError", <<"URI malformed">>)]
         ELSE [ok |-> TRUE,
               value |->
                 [bucketName |-> bucketName,
                  creationDate |-> eventRecord.eventTime,
                  objectKey |-> objectKey,
                  objectUrl |-> <<"h", "t", "t", "p", "s", ":", "/", "/">>
                                \o bucketName \o UrlHost \o objectKey,
                  consoleUrl |-> <<"https://s3.console.aws.amazon.com/s3/object/">>
                                 \o bucketName \o <<"/">> \o objectKey]]

\* The leftmost position where '+61' is followed by a digit, or 0.
PrefixAt(s) ==
  LET ps == {p \in 1..(Len(s) - 3) :
               /\ s[p] = "+" /\ s[p + 1] = "6" /\ s[p + 2] = "1"
               /\ s[p + 3] \in Digits}
  IN IF ps = {} THEN 0 ELSE SetMin(ps)

\* The end of the run of digits that starts at position p.
DigitRunEnd(s, p) ==
  LET stops == {j \in p..Len(s) : s[j] \notin Digits}
  IN IF stops = {} THEN Len(s) ELSE SetMin(stops) - 1

AllDigits(s) == \A i \in 1..Len(s) : s[i] \in Digits

\* Mutant of formatPhoneNumber: only a number that had the prefix is grouped.
formatPhoneNumberPrefixedOnly(phoneNumber) ==
  LET p == PrefixAt(phoneNumber)
      formattedNumber ==
        IF p = 0 THEN phoneNumber
        ELSE <<"0">> \o SubSeq(phoneNumber, p + 3, DigitRunEnd(phoneNumber, p + 3))
      tenDigits == p # 0 /\ Len(formattedNumber) = 10 /\ AllDigits(formattedNumber)
      mobile == tenDigits /\ formattedNumber[1] = "0" /\ formattedNumber[2] = "4"
  IN IF mobile
       THEN SubSeq(formattedNumber, 1, 4) \o <<" ">> \o SubSeq(formattedNumber, 5, 7)
            \o <<" ">> \o SubSeq(formattedNumber, 8, 10)
     ELSE IF tenDigits
       THEN SubSeq(formattedNumber, 1, 2) \o <<" ">> \o SubSeq(formattedNumber, 3, 6)
            \o <<" ">> \o SubSeq(formattedNumber, 7, 10)
     ELSE formattedNumber

formatPhoneNumber(phoneNumber) ==
  LET p == PrefixAt(phoneNumber)
      formattedNumber ==
        IF p = 0 THEN phoneNumber
        ELSE <<"0">> \o SubSeq(phoneNumber, p + 3, DigitRunEnd(phoneNumber, p + 3))
      tenDigits == Len(formattedNumber) = 10 /\ AllDigits(formattedNumber)
      mobile == tenDigits /\ formattedNumber[1] = "0" /\ formattedNumber[2] = "4"
  IN IF mobile
       THEN SubSeq(formattedNumber, 1, 4) \o <<" ">> \o SubSeq(formattedNumber, 5, 7)
            \o <<" ">> \o SubSeq(formattedNumber, 8, 10)
     ELSE IF tenDigits
       THEN SubSeq(formattedNumber, 1, 2) \o <<" ">> \o SubSeq(formattedNumber, 3, 6)
            \o <<" ">> \o SubSeq(formattedNumber, 7, 10)
     ELSE formattedNumber

formatAttribute(key, value) ==
  IF key = "callingNumber" THEN formatPhoneNumber(value) ELSE value

\* An object as a function from its own property names; a missing property
\* reads as undefined.
Get(obj, k) == IF k \in DOMAIN obj THEN obj[k] ELSE Undefined

EmptyObject == [k \in {} |-> <<>>]

\* {...a, ...b}
SpreadMerge(a, b) ==
  [k \in (DOMAIN a) \cup (DOMAIN b) |-> IF k \in DOMAIN b THEN b[k] ELSE a[k]]

\* Mutant of parseCallAttributes: the first entry of a key is kept.
RECURSIVE parseCallAttributesFirstWins(_)
parseCallAttributesFirstWins(events) ==
  IF events = <<>> THEN [ok |-> TRUE, value |-> EmptyObject]
  ELSE
    LET n == Len(events)
        last == events[n]
        before == parseCallAttributesFirstWins(SubSeq(events, 1, n - 1))
    IN IF ~before.ok THEN before
       ELSE IF ~last.valid
         THEN [ok |-> FALSE,
               error |-> MkError("SyntaxError", <<"Unexpected token in JSON">>)]
       ELSE [ok |-> TRUE,
             value |-> SpreadMerge([k \in {last.Key} |->
                                      formatAttribute(last.Key, last.Value)],
                                   before.value)]

\* parseCallAttributes(events): a log entry is [valid, Key, Value]; valid =
\* FALSE is a message JSON.parse rejects.  [ok, value]; ok = FALSE is the
\* thrown SyntaxError.
RECURSIVE parseCallAttributes(_)
parseCallAttributes(events) ==
  IF events = <<>> THEN [ok |-> TRUE, value |-> EmptyObject]
  ELSE
    LET n == Len(events)
        event == events[n]
        before == parseCallAttributes(SubSeq(events, 1, n - 1))
    IN IF ~before.ok THEN before
       ELSE IF ~event.valid
         THEN [ok |-> FALSE,
               error |-> MkError("SyntaxError", <<"Unexpected token in JSON">>)]
       ELSE [ok |-> TRUE,
             value |-> SpreadMerge(before.value,
                         [k \in {event.Key} |->
                            formatAttribute(event.Key, event.Value)])]

notificationSubject(voicemail) ==
  LET purpose == Get(voicemail, "purpose")
      purposeString == IF Falsy(purpose) THEN <<>> ELSE <<" ">> \o purpose
  IN <<"[">> \o purposeString \o <<"] Voice-mail from ">>
     \o Interpolate(Get(voicemail, "callingNumber"))

\* formatDate: the rendering of a date in the display timezone, kept opaque.
formatDate(dateTime) == <<"formatDate(">> \o dateTime \o <<")">>

notificationMessage(voicemail) ==
  <<"\nCaller: ">> \o Interpolate(Get(voicemail, "callingNumber"))
  \o <<"\nCalled at: ">> \o formatDate(Interpolate(Get(voicemail, "creationDate")))
  \o <<"\nPurpose: ">> \o Interpolate(Get(voicemail, "purpose"))
  \o <<"\n\nTranscript:\n===========\n">>
  \o Interpolate(Get(voicemail, "transcript"))
  \o <<"\n===========\n\nDownload (valid until ">>
  \o formatDate(<<"now + LINK_EXPIRY_IN_DAYS">>) \o <<"): ">>
  \o Interpolate(Get(voicemail, "preSignedUrl"))
  \o <<"\n\n-\n\nDownload (requires log-in): ">>
  \o Interpolate(Get(voicemail, "consoleUrl"))
  \o <<"\n\n(rule)\n">>

----------------------------------------------------------------------------
(* Program constants                                                       *)

INITIAL_WAIT_MS == 60000

TRANSCRIBE_WAIT_SECONDS == 240

TRIES == 6

TRANSCRIBE_PENDING == "IN_PROGRESS"

TRANSCRIBE_COMPLETED == "COMPLETED"

TRANSCRIBE_FAILED == "FAILED"

NOTIFICATION_TOPIC == "env.NOTIFICATION_TOPIC"

AGENT_LOGIN_TOPIC == "env.AGENT_LOGIN_TOPIC"

VOICEMAIL_PROCESSED_EVENT == "VOICEMAIL_PROCESSED"

AlertSubject == <<"Voicemail processing failure">>

----------------------------------------------------------------------------
(* Bounds and inputs                                                       *)

\* Longest sequence of log entries the log search returns.
MaxEvents == 2

\* Values of the millisecond clock read by startJob: 1..MaxNow.
MaxNow == 1

\* Budgets given to awaitJob when called directly: 20, 40, .. seconds.
MaxWaitStep == 12

Bucket == <<"b">>

EventTime == <<"2018-06-19T07:02:00Z">>

\* c/a-1_T%3A2.wav
KeyValid ==
  <<"c", "/", "a", "-", "1", "_", "T", "%", "3", "A", "2", ".", "w", "a", "v">>

\* c+d/a-1_x
KeyPlus == <<"c", "+", "d", "/", "a", "-", "1", "_", "x">>

\* n.wav
KeyNoId == <<"n", ".", "w", "a", "v">>

\* c/a_%
KeyBadEscape == <<"c", "/", "a", "_", "%">>

Keys == {KeyValid, KeyPlus, KeyNoId, KeyBadEscape}

\* The lambda events: one with no record, one per object key.
Events ==
  {[Records |-> <<>>]} \cup
  {[Records |-> <<[bucket |-> Bucket, key |-> k, eventTime |-> EventTime]>>] :
     k \in Keys}

LogEntries ==
  {[valid |-> TRUE, Key |-> "voicemail", Value |-> <<"true">>],
   [valid |-> TRUE, Key |-> "voicemail", Value |-> <<>>],
   [valid |-> TRUE, Key |-> "callingNumber",
    Value |-> <<"+", "6", "1", "4", "1", "2", "3", "4", "5", "6", "7", "8">>],
   [valid |-> TRUE, Key |-> "purpose", Value |-> <<"billing">>],
   [valid |-> FALSE, Key |-> "", Value |-> <<>>]}

\* What the log search can return: the sequences of up to MaxEvents entries.
LogResults == UNION {[1..n -> LogEntries] : n \in 0..MaxEvents}

\* Statuses getTranscriptionJob reports (QUEUED precedes IN_PROGRESS).
JobStatuses == {TRANSCRIBE_PENDING, TRANSCRIBE_COMPLETED, TRANSCRIBE_FAILED, "QUEUED"}

FailureReasons == {<<"Unsupported media format">>}

TranscriptFileUri == <<"https://transcripts/result.json">>

\* results.transcripts of the fetched document.
TranscriptLists ==
  {<<>>, <<[transcript |-> <<"hello">>]>>,
   <<[transcript |-> <<"hello">>], [transcript |-> <<"second">>]>>}

SignedUrl == <<"https://signed/url">>

WaitSecondsChoices ==
  {20 * k : k \in 1..MaxWaitStep} \cup {TRANSCRIBE_WAIT_SECONDS}

----------------------------------------------------------------------------
(* State                                                                   *)

VARIABLES
  event,               \* the lambda event given to process
  pc,                  \* where the invocation is
  voicemail,           \* the voicemail record of process
  err,                 \* the error caught by the catch block of process
  outcome,             \* how process ended: returned a value or raised
  trace,               \* history of collaborator calls, returns and failures
                       \* (what the log search returned is not kept)
  logged,              \* errors written by the catch blocks of process
  agentPublish,        \* the promise of agent.sendLoginEvent
  unhandledRejection,  \* a rejected promise nobody handles was reported
  caller,              \* who called awaitJob: "process" or "direct"
  jobName,             \* awaitJob: jobName
  waitSeconds,         \* awaitJob: waitSeconds
  job,                 \* awaitJob: job
  triesLeft,           \* awaitJob: triesLeft
  waitBetweenRetries,  \* awaitJob: waitBetweenRetries
  waits,               \* history of the delays awaitJob asked _wait for
  awaitResult          \* how awaitJob ended

procVars == <<event, voicemail, err, outcome, logged>>

agentVars == <<agentPublish, unhandledRejection>>

awaitVars == <<jobName, waitSeconds, job, triesLeft, waitBetweenRetries, waits,
               awaitResult>>

vars == <<event, pc, voicemail, err, outcome, trace, logged, agentPublish,
          unhandledRejection, caller, jobName, waitSeconds, job, triesLeft,
          waitBetweenRetries, waits, awaitResult>>

Pending == [kind |-> "pending"]

Returned(v) == [kind |-> "returned", value |-> v]

Raised(e) == [kind |-> "raised", error |-> e]

Success == <<"{success: true}">>

Call(fn, by, arg) == [op |-> "call", fn |-> fn, by |-> by, arg |-> arg]

Return(fn, by, arg) == [op |-> "return", fn |-> fn, by |-> by, arg |-> arg]

Fail(fn, by) == [op |-> "fail", fn |-> fn, by |-> by, arg |-> <<>>]

\* The rejection of a collaborator call made by call site `by`.
ServiceError(fn, by) == MkError("Error", <<fn, " failed (", by, ")">>)

\* A delay in milliseconds, as the exact quotient num / den.
Ms(num, den) == [num |-> num, den |-> den]

----------------------------------------------------------------------------
(* sns.publish and the messages given to it                                *)

\* sns.publish throws before any request when the message is empty.
PublishRejectsMessage(params) == Falsy(params.message)

\* agent.sendLoginEvent(params): JSON.stringify(params) to the login topic.
LoginEventParams(e) ==
  [topicArn |-> AGENT_LOGIN_TOPIC,
   subject |-> Undefined,
   message |-> <<"{\"event\":\"", e, "\"}">>]

\* sendNotification(voicemail)
NotificationParams(v) ==
  [topicArn |-> NOTIFICATION_TOPIC,
   subject |-> notificationSubject(v),
   message |-> notificationMessage(v)]

\* Mutant of AlertParams: the alert goes to a topic of its own.
AlertParamsOwnTopic(e) ==
  [topicArn |-> "env.ALERT_TOPIC",
   subject |-> AlertSubject,
   message |-> <<"Voicemail processing encountered an error:\n        ">>
               \o ErrorToString(e)]

\* The publish of the catch block of process.
AlertParams(e) ==
  [topicArn |-> NOTIFICATION_TOPIC,
   subject |-> AlertSubject,
   message |-> <<"Voicemail processing encountered an error:\n        ">>
               \o ErrorToString(e)]

\* startJob: the request given to startTranscriptionJob.
StartJobParams(mediaFileUri, mediaFormat, timestamp) ==
  LET parts == _getFileParts(mediaFileUri)
  IN [LanguageCode |-> <<"en-US">>,
      MediaFileUri |-> mediaFileUri,
      MediaFormat |->
        IF ~Falsy(mediaFormat) THEN mediaFormat
        ELSE IF ~Falsy(parts.extension) THEN parts.extension
        ELSE <<"w", "a", "v">>,
      TranscriptionJobName |->
        _normalisedJobName(Interpolate(parts.filename) \o <<"_">>
                           \o ToDecimal(timestamp))]

----------------------------------------------------------------------------
(* process: the agent-availability signal                                  *)

\* Lines 61-67: agent.sendLoginEvent is async and not awaited, so the call
\* returns a promise and the try block cannot catch anything.
SendLoginEvent ==
  /\ pc = "sendLoginEvent"
  /\ LET params == LoginEventParams(VOICEMAIL_PROCESSED_EVENT)
     IN IF PublishRejectsMessage(params)
          THEN /\ agentPublish' = "rejected"
               /\ unhandledRejection' = TRUE
               /\ trace' = trace
          ELSE /\ agentPublish' = "inflight"
               /\ unhandledRejection' = unhandledRejection
               /\ trace' = Append(trace, Call("sns.publish", "agent", params))
  /\ pc' = "getS3ObjectInfo"
  /\ UNCHANGED <<procVars, caller, awaitVars>>

\* SNS answers the login publish.
AgentPublishResolves ==
  /\ agentPublish = "inflight"
  /\ agentPublish' = "resolved"
  /\ trace' = Append(trace, Return("sns.publish", "agent", <<>>))
  /\ UNCHANGED <<pc, procVars, unhandledRejection, caller, awaitVars>>

\* SNS rejects the login publish: the promise returned by sendLoginEvent
\* rejects, and no handler was ever attached to it.
AgentPublishRejects ==
  /\ agentPublish = "inflight"
  /\ agentPublish' = "rejected"
  /\ unhandledRejection' = TRUE
  /\ trace' = Append(trace, Fail("sns.publish", "agent"))
  /\ UNCHANGED <<pc, procVars, caller, awaitVars>>

----------------------------------------------------------------------------
(* process: the main pipeline                                              *)

\* Control enters the catch block with error e.
Catch(e) ==
  /\ err' = e
  /\ pc' = "catch"

\* Line 71.
GetS3ObjectInfo ==
  /\ pc = "getS3ObjectInfo"
  /\ LET r == getS3ObjectInfo(event.Records)
     IN IF r.ok
          THEN /\ voicemail' = r.value
               /\ pc' = "contactId"
               /\ err' = err
          ELSE /\ Catch(r.error)
               /\ voicemail' = voicemail
  /\ UNCHANGED <<event, outcome, trace, logged, agentVars, caller, awaitVars>>

\* Line 72, and the call of cwl.filterLogEvents that addCallAttributes
\* makes next (lines 73, 106, 129).
ContactIdAndLogSearch ==
  /\ pc = "contactId"
  /\ LET r == contactIdFromObjectKey(voicemail.objectKey)
     IN IF r.ok
          THEN /\ voicemail' = SpreadMerge(voicemail, [contactId |-> r.value])
               /\ trace' = Append(trace,
                             Call("cwl.filterLogEvents", "main", r.value))
               /\ pc' = "filterLogEvents"
               /\ err' = err
          ELSE /\ Catch(r.error)
               /\ UNCHANGED <<voicemail, trace>>
  /\ UNCHANGED <<event, outcome, logged, agentVars, caller, awaitVars>>

\* Mutant of SkipRule: only an absent attribute is skipped.
SkipRuleAbsentOnly(v) == "voicemail" \notin DOMAIN v

\* Lines 106-111, 75-78 and 80, 164: the log search returns; the attributes
\* are parsed and merged; a falsy voicemail attribute ends the invocation
\* with success; otherwise startJob submits the transcription job.
\* Line 75: !voicemail.voicemail.
SkipRule(v) == Falsy(Get(v, "voicemail"))

LogSearchStep(events, now) ==
  LET attrs == parseCallAttributes(events)
      v == SpreadMerge(voicemail, attrs.value)
      ret == Return("cwl.filterLogEvents", "main", <<>>)
      params == StartJobParams(v.objectUrl, Undefined, now)
  IN IF ~attrs.ok
       THEN /\ Catch(attrs.error)
            /\ trace' = Append(trace, ret)
            /\ UNCHANGED <<voicemail, outcome>>
     ELSE IF SkipRule(v)
       THEN /\ voicemail' = v
            /\ trace' = Append(trace, ret)
            /\ outcome' = Returned(Success)
            /\ pc' = "done"
            /\ err' = err
     ELSE /\ voicemail' = v
          /\ trace' = trace \o
               <<ret, Call("transcribe.startTranscriptionJob", "main", params)>>
          /\ pc' = "startJob"
          /\ UNCHANGED <<err, outcome>>

LogSearchReturns ==
  /\ pc = "filterLogEvents"
  /\ \E events \in LogResults, now \in 1..MaxNow : LogSearchStep(events, now)
  /\ UNCHANGED <<event, logged, agentVars, caller, awaitVars>>

\* The same step when the answer of the log search is fixed beforehand, as
\* the logEvents carried along with the event.
LogSearchReturnsGiven ==
  /\ pc = "filterLogEvents"
  /\ "logEvents" \in DOMAIN event
  /\ LogSearchStep(event.logEvents, 1)
  /\ UNCHANGED <<event, logged, agentVars, caller, awaitVars>>

LogSearchFails ==
  /\ pc = "filterLogEvents"
  /\ trace' = Append(trace, Fail("cwl.filterLogEvents", "main"))
  /\ Catch(ServiceError("cwl.filterLogEvents", "main"))
  /\ UNCHANGED <<event, voicemail, outcome, logged, agentVars, caller, awaitVars>>

\* The argument of the latest call of fn in the trace.
LastCallArg(fn) ==
  trace[SetMax({i \in 1..Len(trace) :
                  trace[i].op = "call" /\ trace[i].fn = fn})].arg

----------------------------------------------------------------------------
(* transcribe.awaitJob                                                     *)

\* Mutant of WaitBetweenRetries: the initial wait is not taken off the budget.
WaitBetweenRetriesWholeBudget(secs, tries) == Ms(secs * 1000, tries)

\* Line 59: (waitSeconds * 1000 - INITIAL_WAIT_MS) / triesLeft.
WaitBetweenRetries(secs, tries) == Ms(secs * 1000 - INITIAL_WAIT_MS, tries)

\* Lines 53-55: awaitJob is entered and asks for the initial wait.
AwaitJobEntry(name, secs) ==
  /\ jobName' = name
  /\ waitSeconds' = secs
  /\ waits' = <<Ms(INITIAL_WAIT_MS, 1)>>
  /\ awaitResult' = Pending
  /\ UNCHANGED <<job, triesLeft, waitBetweenRetries>>

\* Line 57: job = null, no job observed yet.
NullJob ==
  [TranscriptionJobStatus |-> "null", FailureReason |-> Undefined,
   TranscriptFileUri |-> Undefined]

\* Mutant of AfterLoop: a failed job is not told apart from a pending one.
AfterLoopFailedIgnored(j) ==
  IF TRANSCRIBE_COMPLETED = j.TranscriptionJobStatus THEN "fetch" ELSE "nothing"

\* Lines 79-91: what awaitJob does with the job it last observed.
AfterLoop(j) ==
  IF TRANSCRIBE_COMPLETED = j.TranscriptionJobStatus THEN "fetch"
  ELSE IF TRANSCRIBE_FAILED = j.TranscriptionJobStatus THEN "raise"
  ELSE "nothing"

\* Lines 76-92 up to the next await, after trace tr and with job j.
PostLoop(j, tr) ==
  IF j = NullJob
    THEN /\ trace' = tr
         /\ pc' = "aj_done"
         /\ awaitResult' =
              Raised(MkError("TypeError", <<"Cannot read property of null">>))
  ELSE IF AfterLoop(j) = "fetch"
    THEN /\ trace' = Append(tr, Call("axios.get", "main", j.TranscriptFileUri))
         /\ pc' = "aj_fetch"
         /\ awaitResult' = awaitResult
  ELSE IF AfterLoop(j) = "raise"
    THEN /\ trace' = tr
         /\ pc' = "aj_done"
         /\ awaitResult' =
              Raised(MkError("Error", <<"Transcription failure: ">>
                                      \o Interpolate(j.FailureReason)))
  ELSE /\ trace' = tr
       /\ pc' = "aj_done"
       /\ awaitResult' = Returned(Undefined)

\* Mutant of LoopHead: the loop test lets one more status check through.
LoopHeadOneMore(tl, j, tr) ==
  IF tl > -1
    THEN /\ triesLeft' = tl - 1
         /\ trace' = Append(tr, Call("transcribe.getTranscriptionJob", "main",
                                     jobName))
         /\ pc' = "aj_getJob"
         /\ awaitResult' = awaitResult
    ELSE /\ triesLeft' = tl
         /\ PostLoop(j, tr)

\* Lines 60-65: the loop test and, when it passes, the next status check.
LoopHead(tl, j, tr) ==
  IF tl > 0
    THEN /\ triesLeft' = tl - 1
         /\ trace' = Append(tr, Call("transcribe.getTranscriptionJob", "main",
                                     jobName))
         /\ pc' = "aj_getJob"
         /\ awaitResult' = awaitResult
    ELSE /\ triesLeft' = tl
         /\ PostLoop(j, tr)

\* Lines 57-65: the initial wait has elapsed.
InitialWaitElapsed ==
  /\ pc = "aj_initialWait"
  /\ job' = NullJob
  /\ waitBetweenRetries' = WaitBetweenRetries(waitSeconds, TRIES)
  /\ LoopHead(TRIES, NullJob, trace)
  /\ UNCHANGED <<procVars, agentVars, caller, jobName, waitSeconds, waits>>

\* Mutant of LeavesLoop: only a completed job ends the polling.
LeavesLoopOnCompleted(j) == TRANSCRIBE_COMPLETED = j.TranscriptionJobStatus

\* Lines 70-72: if (TRANSCRIBE_PENDING !== job.TranscriptionJobStatus) break.
LeavesLoop(j) == TRANSCRIBE_PENDING # j.TranscriptionJobStatus

\* Lines 65-73: a status check returns; the loop is left on any status but
\* IN_PROGRESS, and otherwise _wait(waitBetweenRetries) is asked for.
GetJobReturns ==
  /\ pc = "aj_getJob"
  /\ \E status \in JobStatuses, reason \in FailureReasons :
       LET j == [TranscriptionJobStatus |-> status,
                 FailureReason |->
                   IF status = TRANSCRIBE_FAILED THEN reason ELSE Undefined,
                 TranscriptFileUri |->
                   IF status = TRANSCRIBE_COMPLETED THEN TranscriptFileUri
                   ELSE Undefined]
           tr == Append(trace, Return("transcribe.getTranscriptionJob", "main", j))
       IN /\ job' = j
          /\ IF LeavesLoop(j)
               THEN /\ PostLoop(j, tr)
                    /\ waits' = waits
               ELSE /\ waits' = Append(waits, waitBetweenRetries)
                    /\ trace' = tr
                    /\ pc' = "aj_retryWait"
                    /\ awaitResult' = awaitResult
  /\ UNCHANGED <<procVars, agentVars, caller, jobName, waitSeconds, triesLeft,
                 waitBetweenRetries>>

\* Mutant of GetJobFails: a failed status check is tried again after a wait.
GetJobFailsRetried ==
  /\ pc = "aj_getJob"
  /\ trace' = Append(trace, Fail("transcribe.getTranscriptionJob", "main"))
  /\ waits' = Append(waits, waitBetweenRetries)
  /\ pc' = "aj_retryWait"
  /\ UNCHANGED <<procVars, agentVars, caller, jobName, waitSeconds, job,
                 triesLeft, waitBetweenRetries, awaitResult>>

GetJobFails ==
  /\ pc = "aj_getJob"
  /\ trace' = Append(trace, Fail("transcribe.getTranscriptionJob", "main"))
  /\ awaitResult' = Raised(ServiceError("transcribe.getTranscriptionJob", "main"))
  /\ pc' = "aj_done"
  /\ UNCHANGED <<procVars, agentVars, caller, jobName, waitSeconds, job,
                 triesLeft, waitBetweenRetries, waits>>

\* Lines 73-74, 60: the wait between checks has elapsed.
RetryWaitElapsed ==
  /\ pc = "aj_retryWait"
  /\ LoopHead(triesLeft, job, trace)
  /\ UNCHANGED <<procVars, agentVars, caller, jobName, waitSeconds, job,
                 waitBetweenRetries, waits>>

\* Lines 81-88: the transcript document arrives.
FetchReturns ==
  /\ pc = "aj_fetch"
  /\ \E transcripts \in TranscriptLists :
       /\ trace' = Append(trace, Return("axios.get", "main", transcripts))
       /\ awaitResult' =
            Returned(IF Len(transcripts) > 0 THEN transcripts[1].transcript
                     ELSE Undefined)
  /\ pc' = "aj_done"
  /\ UNCHANGED <<procVars, agentVars, caller, jobName, waitSeconds, job,
                 triesLeft, waitBetweenRetries, waits>>

FetchFails ==
  /\ pc = "aj_fetch"
  /\ trace' = Append(trace, Fail("axios.get", "main"))
  /\ awaitResult' = Raised(ServiceError("axios.get", "main"))
  /\ pc' = "aj_done"
  /\ UNCHANGED <<procVars, agentVars, caller, jobName, waitSeconds, job,
                 triesLeft, waitBetweenRetries, waits>>

----------------------------------------------------------------------------
(* process: transcription, link, notification, error boundary              *)

\* Mutant of StartJobReturns: the transcription is not awaited, and the
\* signed URL is asked for while the job is still being waited for.
StartJobReturnsNoAwait ==
  /\ pc = "startJob"
  /\ LET name == LastCallArg("transcribe.startTranscriptionJob").TranscriptionJobName
     IN /\ trace' = trace \o
                      <<Return("transcribe.startTranscriptionJob", "main", name),
                        Call("s3.getSignedUrl", "main", voicemail.objectKey)>>
        /\ AwaitJobEntry(name, TRANSCRIBE_WAIT_SECONDS)
  /\ pc' = "aj_initialWait"
  /\ UNCHANGED <<procVars, agentVars, caller>>

\* Lines 37-41 and 168: startJob returns the job; awaitJob is called with
\* its name and TRANSCRIBE_WAIT_SECONDS.
StartJobReturns ==
  /\ pc = "startJob"
  /\ LET name == LastCallArg("transcribe.startTranscriptionJob").TranscriptionJobName
     IN /\ trace' = Append(trace,
                      Return("transcribe.startTranscriptionJob", "main", name))
        /\ AwaitJobEntry(name, TRANSCRIBE_WAIT_SECONDS)
  /\ pc' = "aj_initialWait"
  /\ UNCHANGED <<procVars, agentVars, caller>>

StartJobFails ==
  /\ pc = "startJob"
  /\ trace' = Append(trace, Fail("transcribe.startTranscriptionJob", "main"))
  /\ Catch(ServiceError("transcribe.startTranscriptionJob", "main"))
  /\ UNCHANGED <<event, voicemail, outcome, logged, agentVars, caller, awaitVars>>

\* Lines 80-81, 193: awaitJob returned; its value, a transcript or
\* undefined, is stored and the signed URL is asked for.
TranscribeReturns ==
  /\ pc = "aj_done"
  /\ caller = "process"
  /\ awaitResult.kind = "returned"
  /\ voicemail' = SpreadMerge(voicemail, [transcript |-> awaitResult.value])
  /\ trace' = Append(trace, Call("s3.getSignedUrl", "main", voicemail.objectKey))
  /\ pc' = "getSignedUrl"
  /\ UNCHANGED <<event, err, outcome, logged, agentVars, caller, awaitVars>>

\* Mutant of TranscribeRaises: the error of awaitJob is swallowed and the
\* pipeline goes on without a transcript.
TranscribeRaisesSwallowed ==
  /\ pc = "aj_done"
  /\ caller = "process"
  /\ awaitResult.kind = "raised"
  /\ voicemail' = SpreadMerge(voicemail, [transcript |-> Undefined])
  /\ trace' = Append(trace, Call("s3.getSignedUrl", "main", voicemail.objectKey))
  /\ pc' = "getSignedUrl"
  /\ UNCHANGED <<event, err, outcome, logged, agentVars, caller, awaitVars>>

\* Line 80: awaitJob raised; the error reaches the catch block.
TranscribeRaises ==
  /\ pc = "aj_done"
  /\ caller = "process"
  /\ awaitResult.kind = "raised"
  /\ Catch(awaitResult.error)
  /\ UNCHANGED <<event, voicemail, outcome, trace, logged, agentVars, caller,
                 awaitVars>>

\* Lines 81-83, 206: the signed URL arrives and sendNotification publishes.
SignedUrlReturns ==
  /\ pc = "getSignedUrl"
  /\ LET v == SpreadMerge(voicemail, [preSignedUrl |-> SignedUrl])
         params == NotificationParams(v)
         ret == Return("s3.getSignedUrl", "main", SignedUrl)
     IN /\ voicemail' = v
        /\ IF PublishRejectsMessage(params)
             THEN /\ trace' = Append(trace, ret)
                  /\ Catch(MkError("TypeError", <<"Need a non-empty message">>))
             ELSE /\ trace' = trace \o <<ret, Call("sns.publish", "main", params)>>
                  /\ pc' = "notify"
                  /\ err' = err
  /\ UNCHANGED <<event, outcome, logged, agentVars, caller, awaitVars>>

SignedUrlFails ==
  /\ pc = "getSignedUrl"
  /\ trace' = Append(trace, Fail("s3.getSignedUrl", "main"))
  /\ Catch(ServiceError("s3.getSignedUrl", "main"))
  /\ UNCHANGED <<event, voicemail, outcome, logged, agentVars, caller, awaitVars>>

\* Lines 83-85.
NotifyReturns ==
  /\ pc = "notify"
  /\ trace' = Append(trace, Return("sns.publish", "main", <<>>))
  /\ outcome' = Returned(Success)
  /\ pc' = "done"
  /\ UNCHANGED <<event, voicemail, err, logged, agentVars, caller, awaitVars>>

NotifyFails ==
  /\ pc = "notify"
  /\ trace' = Append(trace, Fail("sns.publish", "main"))
  /\ Catch(ServiceError("sns.publish", "main"))
  /\ UNCHANGED <<event, voicemail, outcome, logged, agentVars, caller, awaitVars>>

\* Lines 86-93: the catch block logs the error and publishes the alert.
AlertPublish ==
  /\ pc = "catch"
  /\ logged' = Append(logged, err)
  /\ trace' = Append(trace, Call("sns.publish", "alert", AlertParams(err)))
  /\ pc' = "alert"
  /\ UNCHANGED <<event, voicemail, err, outcome, agentVars, caller, awaitVars>>

\* Line 94: the alert was published; the caught error is thrown again.
AlertReturns ==
  /\ pc = "alert"
  /\ trace' = Append(trace, Return("sns.publish", "alert", <<>>))
  /\ outcome' = Raised(err)
  /\ pc' = "done"
  /\ UNCHANGED <<event, voicemail, err, logged, agentVars, caller, awaitVars>>

\* Line 88: the awaited alert publish rejects inside the catch block, so its
\* error leaves process and line 94 is never reached.
AlertFails ==
  /\ pc = "alert"
  /\ trace' = Append(trace, Fail("sns.publish", "alert"))
  /\ outcome' = Raised(ServiceError("sns.publish", "alert"))
  /\ pc' = "done"
  /\ UNCHANGED <<event, voicemail, err, logged, agentVars, caller, awaitVars>>

----------------------------------------------------------------------------
(* Specifications                                                          *)

\* One invocation of process on any of the events.
Init ==
  /\ event \in Events
  /\ pc = "sendLoginEvent"
  /\ voicemail = EmptyObject
  /\ err = NoError
  /\ outcome = Pending
  /\ trace = <<>>
  /\ logged = <<>>
  /\ agentPublish = "none"
  /\ unhandledRejection = FALSE
  /\ caller = "process"
  /\ jobName = <<>>
  /\ waitSeconds = 0
  /\ job = NullJob
  /\ triesLeft = 0
  /\ waitBetweenRetries = Ms(0, 1)
  /\ waits = <<>>
  /\ awaitResult = Pending

Next ==
  \/ SendLoginEvent
  \/ AgentPublishResolves
  \/ AgentPublishRejects
  \/ GetS3ObjectInfo
  \/ ContactIdAndLogSearch
  \/ LogSearchReturns
  \/ LogSearchFails
  \/ StartJobReturns
  \/ StartJobFails
  \/ InitialWaitElapsed
  \/ GetJobReturns
  \/ GetJobFails
  \/ RetryWaitElapsed
  \/ FetchReturns
  \/ FetchFails
  \/ TranscribeReturns
  \/ TranscribeRaises
  \/ SignedUrlReturns
  \/ SignedUrlFails
  \/ NotifyReturns
  \/ NotifyFails
  \/ AlertPublish
  \/ AlertReturns
  \/ AlertFails

Spec == Init /\ [][Next]_vars

\* One direct call awaitJob({jobName, waitSeconds}) with any of the budgets,
\* taken up where the initial wait has been asked for.
DirectJobName == <<"j", "o", "b", "_", "1">>

InitAwait ==
  /\ event = [Records |-> <<>>]
  /\ pc = "aj_initialWait"
  /\ voicemail = EmptyObject
  /\ err = NoError
  /\ outcome = Pending
  /\ trace = <<>>
  /\ logged = <<>>
  /\ agentPublish = "none"
  /\ unhandledRejection = FALSE
  /\ caller = "direct"
  /\ jobName = DirectJobName
  /\ waitSeconds \in WaitSecondsChoices
  /\ job = NullJob
  /\ triesLeft = 0
  /\ waitBetweenRetries = Ms(0, 1)
  /\ waits = <<Ms(INITIAL_WAIT_MS, 1)>>
  /\ awaitResult = Pending

NextAwait ==
  \/ InitialWaitElapsed
  \/ GetJobReturns
  \/ GetJobFails
  \/ RetryWaitElapsed
  \/ FetchReturns
  \/ FetchFails

SpecAwait == InitAwait /\ [][NextAwait]_vars

\* The first two steps of process on object keys of every shape: the keys
\* are all strings of up to MaxKeyLen characters over a path separator, an
\* underscore, two id characters and one other character.
MaxKeyLen == 6

KeyAlphabet == {"/", "_", "a", "-", "."}

ObjectKeyInputs == UNION {[1..n -> KeyAlphabet] : n \in 0..MaxKeyLen}

InitContactId ==
  /\ event \in {[Records |-> <<[bucket |-> Bucket, key |-> k,
                                eventTime |-> EventTime]>>] :
                  k \in ObjectKeyInputs}
  /\ pc = "getS3ObjectInfo"
  /\ voicemail = EmptyObject
  /\ err = NoError
  /\ outcome = Pending
  /\ trace = <<>>
  /\ logged = <<>>
  /\ agentPublish = "none"
  /\ unhandledRejection = FALSE
  /\ caller = "process"
  /\ jobName = <<>>
  /\ waitSeconds = 0
  /\ job = NullJob
  /\ triesLeft = 0
  /\ waitBetweenRetries = Ms(0, 1)
  /\ waits = <<>>
  /\ awaitResult = Pending

NextContactId ==
  \/ GetS3ObjectInfo
  \/ ContactIdAndLogSearch

SpecContactId == InitContactId /\ [][NextContactId]_vars

\* addCallAttributes and the skip rule on log-search answers of every
\* shape: the sequences of LogResults, and single callingNumber entries
\* whose number is an optional lead, up to MaxDigits digits of a template,
\* and an optional tail.
MaxDigits == 10

DigitTemplates ==
  {<<"4", "1", "2", "3", "4", "5", "6", "7", "8", "9", "0">>,
   <<"8", "1", "2", "3", "4", "1", "2", "3", "4", "5", "6">>,
   <<"0", "4", "1", "2", "3", "4", "5", "6", "7", "8", "9">>}

PhoneLeads == {<<>>, <<"+", "6", "1">>, <<"x", "+", "6", "1">>, <<"+", "6", "2">>}

PhoneTails == {<<>>, <<"x">>}

PhoneInputs ==
  {lead \o SubSeq(t, 1, n) \o tail :
     lead \in PhoneLeads, t \in DigitTemplates, n \in 0..MaxDigits,
     tail \in PhoneTails}

\* Contact attributes that are named like a property of the record.
RecordKeyEntries ==
  {[valid |-> TRUE, Key |-> "contactId", Value |-> <<"z">>],
   [valid |-> TRUE, Key |-> "objectUrl", Value |-> <<"x", ".", "w", "a", "v">>]}

ParseInputs ==
  LogResults \cup
  {<<[valid |-> TRUE, Key |-> "callingNumber", Value |-> n]>> : n \in PhoneInputs}
  \cup {<<e>> : e \in RecordKeyEntries}
  \cup {<<[valid |-> TRUE, Key |-> "voicemail", Value |-> <<"true">>], e>> :
          e \in RecordKeyEntries}

ParsedRecord == [bucket |-> Bucket, key |-> KeyValid, eventTime |-> EventTime]

InitParse ==
  /\ event \in {[Records |-> <<ParsedRecord>>, logEvents |-> l] : l \in ParseInputs}
  /\ pc = "getS3ObjectInfo"
  /\ voicemail = EmptyObject
  /\ err = NoError
  /\ outcome = Pending
  /\ trace = <<>>
  /\ logged = <<>>
  /\ agentPublish = "none"
  /\ unhandledRejection = FALSE
  /\ caller = "process"
  /\ jobName = <<>>
  /\ waitSeconds = 0
  /\ job = NullJob
  /\ triesLeft = 0
  /\ waitBetweenRetries = Ms(0, 1)
  /\ waits = <<>>
  /\ awaitResult = Pending

NextParse ==
  \/ GetS3ObjectInfo
  \/ ContactIdAndLogSearch
  \/ LogSearchReturnsGiven

SpecParse == InitParse /\ [][NextParse]_vars

\* _normalisedJobName applied to a name, and once more to what it gave: the
\* names are all strings of up to MaxNameLen characters over letters, a
\* digit, the three allowed marks and three characters that are not allowed.
MaxNameLen == 3

NameAlphabet == {"a", "Z", "0", ".", "_", "-", "/", ":", " "}

NameInputs == UNION {[1..n -> NameAlphabet] : n \in 0..MaxNameLen}

InitNormalise ==
  /\ event = [Records |-> <<>>]
  /\ pc = "normalise"
  /\ voicemail = EmptyObject
  /\ err = NoError
  /\ outcome = Pending
  /\ trace = <<>>
  /\ logged = <<>>
  /\ agentPublish = "none"
  /\ unhandledRejection = FALSE
  /\ caller = "direct"
  /\ jobName \in NameInputs
  /\ waitSeconds = 0
  /\ job = NullJob
  /\ triesLeft = 0
  /\ waitBetweenRetries = Ms(0, 1)
  /\ waits = <<>>
  /\ awaitResult = Pending

\* _normalisedJobName(jobName) the first time, and of its own result the
\* second time.
Normalise ==
  /\ pc = "normalise"
  /\ Len(trace) < 2
  /\ LET arg == IF trace = <<>> THEN jobName ELSE trace[Len(trace)].arg
     IN trace' = Append(trace, Return("_normalisedJobName", "direct",
                                      _normalisedJobName(arg)))
  /\ UNCHANGED <<pc, procVars, agentVars, caller, awaitVars>>

NextNormalise == Normalise

SpecNormalise == InitNormalise /\ [][NextNormalise]_vars

\* Two invocations of process for the same storage object (the trigger
\* delivers at least once), each at its startJob: each reads the millisecond
\* clock of its own host, a value of 1..MaxClock.
MaxClock == 5

Invocations == {"first", "second"}

InitRedelivery ==
  /\ event \in {[Records |-> <<[bucket |-> Bucket, key |-> k,
                                eventTime |-> EventTime]>>] :
                  k \in {KeyValid, KeyPlus}}
  /\ pc = "startJob"
  /\ voicemail = getS3ObjectInfo(event.Records).value
  /\ err = NoError
  /\ outcome = Pending
  /\ trace = <<>>
  /\ logged = <<>>
  /\ agentPublish = "none"
  /\ unhandledRejection = FALSE
  /\ caller = "process"
  /\ jobName = <<>>
  /\ waitSeconds = 0
  /\ job = NullJob
  /\ triesLeft = 0
  /\ waitBetweenRetries = Ms(0, 1)
  /\ waits = <<>>
  /\ awaitResult = Pending

\* transcribe.js:22-37 in invocation inv: the clock is read, the job name
\* is built and the job is submitted.
StartJobIn(inv) ==
  /\ pc = "startJob"
  /\ \A i \in 1..Len(trace) : trace[i].by # inv
  /\ \E timestamp \in 1..MaxClock :
       trace' = Append(trace,
                  Call("transcribe.startTranscriptionJob", inv,
                       StartJobParams(voicemail.objectUrl, Undefined, timestamp)))
  /\ UNCHANGED <<pc, procVars, agentVars, caller, awaitVars>>

NextRedelivery == \E inv \in Invocations : StartJobIn(inv)

SpecRedelivery == InitRedelivery /\ [][NextRedelivery]_vars

\* startJob called with media locations of every shape: all strings of up
\* to MaxUriLen characters over a path separator, a dot and two letters,
\* with a media format supplied or not.
MaxUriLen == 4

UriAlphabet == {"/", ".", "a", "w"}

UriInputs == UNION {[1..n -> UriAlphabet] : n \in 1..MaxUriLen}

FormatInputs == {Undefined, <<"m", "p", "3">>}

InitStartJob ==
  /\ event \in {[Records |-> <<>>, mediaFileUri |-> u, mediaFormat |-> f] :
                  u \in UriInputs, f \in FormatInputs}
  /\ pc = "startJobEntry"
  /\ voicemail = EmptyObject
  /\ err = NoError
  /\ outcome = Pending
  /\ trace = <<>>
  /\ logged = <<>>
  /\ agentPublish = "none"
  /\ unhandledRejection = FALSE
  /\ caller = "direct"
  /\ jobName = <<>>
  /\ waitSeconds = 0
  /\ job = NullJob
  /\ triesLeft = 0
  /\ waitBetweenRetries = Ms(0, 1)
  /\ waits = <<>>
  /\ awaitResult = Pending

\* transcribe.js:22-35: startJob builds the request and submits it.
StartJob ==
  /\ pc = "startJobEntry"
  /\ \E timestamp \in 1..MaxNow :
       trace' = Append(trace,
                  Call("transcribe.startTranscriptionJob", "main",
                       StartJobParams(event.mediaFileUri, event.mediaFormat,
                                      timestamp)))
  /\ pc' = "startJobSubmitted"
  /\ UNCHANGED <<procVars, agentVars, caller, awaitVars>>

NextStartJob == StartJob

SpecStartJob == InitStartJob /\ [][NextStartJob]_vars

\* awaitJob on a running event loop: a timer that was set fires and a call
\* that was made returns or fails, so a step that can be taken is taken.
SpecAwaitFair == SpecAwait /\ WF_vars(NextAwait)

----------------------------------------------------------------------------
(* agent.js: the agent login automation                                    *)

CALL_IN_PROGRESS_EVENT == "CALL_IN_PROGRESS"

\* Upper-case letters to lower case, as the i flag of a pattern compares.
ToLower(c) ==
  LET upper == <<"A", "B", "C", "D", "E", "F", "G", "H", "I", "J", "K", "L",
                 "M", "N", "O", "P", "Q", "R", "S", "T", "U", "V", "W", "X",
                 "Y", "Z">>
      lower == <<"a", "b", "c", "d", "e", "f", "g", "h", "i", "j", "k", "l",
                 "m", "n", "o", "p", "q", "r", "s", "t", "u", "v", "w", "x",
                 "y", "z">>
  IN IF c \in UpperCase
       THEN lower[CHOOSE i \in 1..Len(upper) : upper[i] = c]
       ELSE c

\* /word/i.test(s): word, in lower case, occurs somewhere in s.
TestIgnoreCase(word, s) ==
  \E i \in 1..(Len(s) - Len(word) + 1) :
    \A k \in 1..Len(word) : ToLower(s[i + k - 1]) = word[k]

WordAvailable == <<"a", "v", "a", "i", "l", "a", "b", "l", "e">>

WordConnected == <<"c", "o", "n", "n", "e", "c", "t", "e", "d">>

\* Lines 212-215: the two tests under which makeAgentAvailable leaves the
\* page alone.
LeftAlone(agentStatus) ==
  \/ agentStatus # Null /\ TestIgnoreCase(WordAvailable, agentStatus)
  \/ agentStatus # Null /\ TestIgnoreCase(WordConnected, agentStatus)

\* Line 223: agentStatus != null && /(available|connected)/i.test(agentStatus).
MadeAvailable(agentStatus) ==
  /\ agentStatus # Null
  /\ \/ TestIgnoreCase(WordAvailable, agentStatus)
     \/ TestIgnoreCase(WordConnected, agentStatus)

\* What getAgentStatus can return: the text of the status element, or null
\* when the element cannot be read.
StatusTexts ==
  {<<"A", "v", "a", "i", "l", "a", "b", "l", "e">>,
   <<"C", "o", "n", "n", "e", "c", "t", "e", "d">>,
   <<"O", "f", "f", "l", "i", "n", "e">>,
   <<"U", "n", "a", "v", "a", "i", "l", "a", "b", "l", "e">>,
   <<>>}

AgentStatuses == StatusTexts \cup {Null}

\* A function of this module ended by raising e.
Raise(fn, by, e) == [op |-> "fail", fn |-> fn, by |-> by, arg |-> e]

FailedToMakeAvailable == MkError("Error", <<"Failed to make agent available">>)

\* Line 131: new Error('Failed to log agent in: ' + err).
FailedToLogIn(e) ==
  MkError("Error", <<"Failed to log agent in: ">> \o ErrorToString(e))

\* Lines 33-38 and 67-72: the alerts of loginAsync and of login.
TriggerAlertParams(e) ==
  [topicArn |-> NOTIFICATION_TOPIC,
   subject |-> AlertSubject,
   message |-> <<"Failure triggering voicemail agent to be available:\n        ">>
               \o ErrorToString(e)]

LoginAlertParams(e) ==
  [topicArn |-> NOTIFICATION_TOPIC,
   subject |-> AlertSubject,
   message |-> <<"Failure making voicemail agent available:\n        ">>
               \o ErrorToString(e)]

\* Lines 25-29 and 84-87: the message loginAsync has sendLoginEvent publish.
TriggerEventParams(contactId) ==
  [topicArn |-> AGENT_LOGIN_TOPIC,
   subject |-> Undefined,
   message |-> <<"{\"contactId\":\"">> \o contactId
               \o <<"\",\"parameters\":{},\"event\":\"", CALL_IN_PROGRESS_EVENT,
                    "\"}">>]

Deferred == <<"{success: null, deferred: true}">>

\* One step of the automation: the position moves to nextPc, entries are
\* added to the history, the error at hand becomes e, the outcome out and
\* log is written to the console.
AgentStep(nextPc, entries, e, out, log) ==
  /\ pc' = nextPc
  /\ trace' = trace \o entries
  /\ err' = e
  /\ outcome' = out
  /\ logged' = logged \o log
  /\ UNCHANGED <<event, voicemail, agentVars, caller, awaitVars>>

\* run ends after entries, returning when e is NoError and raising e
\* otherwise; an error raised to login lands in its catch block (line 64).
RunEnds(entries, e) ==
  IF e = NoError
    THEN AgentStep("done", entries \o <<Return("run", "login", <<>>)>>,
                   e, Returned(Undefined), <<>>)
  ELSE IF caller = "login"
    THEN AgentStep("login_catch", entries \o <<Raise("run", "login", e)>>,
                   e, outcome, <<>>)
  ELSE AgentStep("done", entries \o <<Raise("run", "login", e)>>,
                 e, Raised(e), <<>>)

\* Lines 54-63: login launches the browser and calls run with it.
LaunchBrowser ==
  /\ pc = "login_launch"
  /\ \/ AgentStep("run_newPage",
                  <<Return("puppeteer.launch", "login", <<>>)>>,
                  err, outcome, <<>>)
     \/ AgentStep("login_catch", <<Fail("puppeteer.launch", "login")>>,
                  ServiceError("puppeteer.launch", "login"), outcome, <<>>)

\* Line 98: browser.newPage(), before the try block of run.
NewPage ==
  /\ pc = "run_newPage"
  /\ \/ AgentStep("run_goto", <<Return("browser.newPage", "login", <<>>)>>,
                  err, outcome, <<>>)
     \/ RunEnds(<<Fail("browser.newPage", "login")>>,
                ServiceError("browser.newPage", "login"))

\* Lines 105-109: page.goto; the page stays on the CCP url (so the agent may
\* be logged in already) or was redirected to the login form.
Goto ==
  /\ pc = "run_goto"
  /\ \/ \E redirected \in BOOLEAN :
          AgentStep(IF redirected THEN "run_form" ELSE "run_status",
                    <<Return("page.goto", "login",
                             IF redirected THEN <<"login form">>
                             ELSE <<"CCP_URL">>)>>,
                    err, outcome, <<>>)
     \/ AgentStep("run_catch", <<Fail("page.goto", "login")>>,
                  ServiceError("page.goto", "login"), outcome, <<>>)

\* Lines 112-116 and 151-177: getAgentStatus(page); a status that is not
\* null means logged in, and makeAgentAvailable is entered (line 123).
CheckLoggedIn ==
  /\ pc = "run_status"
  /\ \/ \E status \in AgentStatuses :
          IF status # Null
            THEN AgentStep("maa_status",
                           <<Return("getAgentStatus", "login", status),
                             Call("makeAgentAvailable", "login", <<>>)>>,
                           err, outcome, <<>>)
            ELSE AgentStep("run_form",
                           <<Return("getAgentStatus", "login", status)>>,
                           err, outcome, <<>>)
     \/ AgentStep("run_catch", <<Fail("getAgentStatus", "login")>>,
                  ServiceError("getAgentStatus", "login"), outcome, <<>>)

\* Lines 119-123 and 185-200: fillAndSubmitLoginForm(page), then
\* makeAgentAvailable is entered.
FillAndSubmitLoginForm ==
  /\ pc = "run_form"
  /\ \/ AgentStep("maa_status",
                  <<Return("fillAndSubmitLoginForm", "login", <<>>),
                    Call("makeAgentAvailable", "login", <<>>)>>,
                  err, outcome, <<>>)
     \/ \E e \in {ServiceError("fillAndSubmitLoginForm", "login"),
                  MkError("TypeError", <<"Missing agent username or password">>)} :
          AgentStep("run_catch",
                    <<Raise("fillAndSubmitLoginForm", "login", e)>>,
                    e, outcome, <<>>)

\* Lines 211-217: makeAgentAvailable reads the status and leaves the page
\* alone when the agent is available or on a call.
ReadStatus ==
  /\ pc = "maa_status"
  /\ \/ \E agentStatus \in AgentStatuses :
          IF LeftAlone(agentStatus)
            THEN AgentStep("run_pageClose",
                           <<Return("getAgentStatus", "login", agentStatus),
                             Return("makeAgentAvailable", "login", <<>>)>>,
                           err, outcome, <<>>)
            ELSE AgentStep("maa_click",
                           <<Return("getAgentStatus", "login", agentStatus)>>,
                           err, outcome, <<>>)
     \/ AgentStep("run_catch",
                  <<Fail("getAgentStatus", "login"),
                    Raise("makeAgentAvailable", "login",
                          ServiceError("getAgentStatus", "login"))>>,
                  ServiceError("getAgentStatus", "login"), outcome, <<>>)

\* Line 219: page.click('button.setAvailButton').
ClickSetAvailable ==
  /\ pc = "maa_click"
  /\ \/ AgentStep("maa_hidden", <<Return("page.click", "login", <<>>)>>,
                  err, outcome, <<>>)
     \/ AgentStep("run_catch",
                  <<Fail("page.click", "login"),
                    Raise("makeAgentAvailable", "login",
                          ServiceError("page.click", "login"))>>,
                  ServiceError("page.click", "login"), outcome, <<>>)

\* Line 220: wait for the button to disappear.
WaitButtonHidden ==
  /\ pc = "maa_hidden"
  /\ \/ AgentStep("maa_recheck",
                  <<Return("page.waitForSelector", "login", <<>>)>>,
                  err, outcome, <<>>)
     \/ AgentStep("run_catch",
                  <<Fail("page.waitForSelector", "login"),
                    Raise("makeAgentAvailable", "login",
                          ServiceError("page.waitForSelector", "login"))>>,
                  ServiceError("page.waitForSelector", "login"), outcome, <<>>)

\* Lines 222-227: the status is read again and decides.
RecheckStatus ==
  /\ pc = "maa_recheck"
  /\ \/ \E agentStatus \in AgentStatuses :
          IF MadeAvailable(agentStatus)
            THEN AgentStep("run_pageClose",
                           <<Return("getAgentStatus", "login", agentStatus),
                             Return("makeAgentAvailable", "login", <<>>)>>,
                           err, outcome, <<>>)
            ELSE AgentStep("run_catch",
                           <<Return("getAgentStatus", "login", agentStatus),
                             Raise("makeAgentAvailable", "login",
                                   FailedToMakeAvailable)>>,
                           FailedToMakeAvailable, outcome, <<>>)
     \/ AgentStep("run_catch",
                  <<Fail("getAgentStatus", "login"),
                    Raise("makeAgentAvailable", "login",
                          ServiceError("getAgentStatus", "login"))>>,
                  ServiceError("getAgentStatus", "login"), outcome, <<>>)

\* Lines 126-131: the catch block of run logs the error, dumps the page
\* source and raises the wrapped error; a failing page.content() raises its
\* own error instead.  The finally block comes next either way.
RunCatch ==
  /\ pc = "run_catch"
  /\ \/ AgentStep("run_pageClose", <<Return("page.content", "login", <<>>)>>,
                  FailedToLogIn(err), outcome, <<err>>)
     \/ AgentStep("run_pageClose", <<Fail("page.content", "login")>>,
                  ServiceError("page.content", "login"), outcome, <<err>>)

\* Line 133: page.close() in the finally block; when it fails its error
\* leaves run and line 134 is not reached.
ClosePage ==
  /\ pc = "run_pageClose"
  /\ \/ AgentStep("run_browserClose",
                  <<Return("page.close", "login", <<>>)>>, err, outcome, <<>>)
     \/ RunEnds(<<Fail("page.close", "login")>>,
                ServiceError("page.close", "login"))

\* Lines 134-137: browser.close(), then run returns or raises the error at
\* hand.
CloseBrowser ==
  /\ pc = "run_browserClose"
  /\ \/ RunEnds(<<Return("browser.close", "login", <<>>)>>, err)
     \/ RunEnds(<<Fail("browser.close", "login")>>,
                ServiceError("browser.close", "login"))

\* Lines 64-73: the catch block of login logs the error, publishes the alert
\* and raises the error; a failing publish raises its own error instead.
LoginCatch ==
  /\ pc = "login_catch"
  /\ \/ AgentStep("done",
                  <<Call("sns.publish", "alert", LoginAlertParams(err)),
                    Return("sns.publish", "alert", <<>>)>>,
                  err, Raised(err), <<err>>)
     \/ AgentStep("done",
                  <<Call("sns.publish", "alert", LoginAlertParams(err)),
                    Fail("sns.publish", "alert")>>,
                  err, Raised(ServiceError("sns.publish", "alert")), <<err>>)

\* Lines 22-30: loginAsync reads the contact id off the event, which throws
\* when the event has no Details; it calls sendLoginEvent, an async function,
\* without await, and returns.
LoginAsync ==
  /\ pc = "loginAsync"
  /\ IF "Details" \in DOMAIN event
       THEN /\ trace' = Append(trace,
                          Call("sns.publish", "agent",
                               TriggerEventParams(event.Details.ContactData.ContactId)))
            /\ agentPublish' = "inflight"
            /\ outcome' = Returned(Deferred)
            /\ pc' = "done"
            /\ err' = err
       ELSE /\ err' = MkError("TypeError",
                              <<"Cannot read property 'ContactData' of undefined">>)
            /\ pc' = "loginAsync_catch"
            /\ UNCHANGED <<trace, agentPublish, outcome>>
  /\ UNCHANGED <<event, voicemail, logged, unhandledRejection, caller, awaitVars>>

\* Lines 31-40: the catch block of loginAsync.
LoginAsyncCatch ==
  /\ pc = "loginAsync_catch"
  /\ \/ AgentStep("done",
                  <<Call("sns.publish", "alert", TriggerAlertParams(err)),
                    Return("sns.publish", "alert", <<>>)>>,
                  err, Raised(err), <<err>>)
     \/ AgentStep("done",
                  <<Call("sns.publish", "alert", TriggerAlertParams(err)),
                    Fail("sns.publish", "alert")>>,
                  err, Raised(ServiceError("sns.publish", "alert")), <<err>>)

\* The events given to loginAsync: a contact flow event, and one without
\* Details.
ContactFlowEvents ==
  {[Details |-> [ContactData |-> [ContactId |-> <<"a-1">>],
                 Parameters |-> EmptyObject]],
   [Records |-> <<>>]}

\* One call of run with an open browser, of login, or of loginAsync.
InitAgent ==
  /\ \/ caller = "run" /\ pc = "run_newPage" /\ event = [Records |-> <<>>]
     \/ caller = "login" /\ pc = "login_launch" /\ event = [Records |-> <<>>]
     \/ caller = "loginAsync" /\ pc = "loginAsync" /\ event \in ContactFlowEvents
  /\ voicemail = EmptyObject
  /\ err = NoError
  /\ outcome = Pending
  /\ trace = <<>>
  /\ logged = <<>>
  /\ agentPublish = "none"
  /\ unhandledRejection = FALSE
  /\ jobName = <<>>
  /\ waitSeconds = 0
  /\ job = NullJob
  /\ triesLeft = 0
  /\ waitBetweenRetries = Ms(0, 1)
  /\ waits = <<>>
  /\ awaitResult = Pending

NextAgent ==
  \/ LaunchBrowser
  \/ NewPage
  \/ Goto
  \/ CheckLoggedIn
  \/ FillAndSubmitLoginForm
  \/ ReadStatus
  \/ ClickSetAvailable
  \/ WaitButtonHidden
  \/ RecheckStatus
  \/ RunCatch
  \/ ClosePage
  \/ CloseBrowser
  \/ LoginCatch
  \/ LoginAsync
  \/ LoginAsyncCatch
  \/ AgentPublishResolves
  \/ AgentPublishRejects

SpecAgent == InitAgent /\ [][NextAgent]_vars

----------------------------------------------------------------------------
(* Reading the history                                                     *)

\* Positions of the trace holding an entry of kind op for fn by call site by.
Entries(op, fn, by) ==
  {i \in 1..Len(trace) :
     trace[i].op = op /\ trace[i].fn = fn /\ trace[i].by = by}

\* Entries of kind op made by the main pipeline (not the alert, not the agent).
MainEntries(op) == {i \in 1..Len(trace) : trace[i].op = op /\ trace[i].by = "main"}

\* The end-user notification: publishes asked for, and publishes done.
NotificationCalls == Entries("call", "sns.publish", "main")

NotificationsPublished == Entries("return", "sns.publish", "main")

AlertCalls == Entries("call", "sns.publish", "alert")

\* The log search returned and JSON.parse rejected none of its entries: the
\* record is enriched.
Enriched ==
  /\ Entries("return", "cwl.filterLogEvents", "main") # {}
  /\ err.name # "SyntaxError"

----------------------------------------------------------------------------
(* Claims                                                                  *)

\* C1 (skip rule): whenever the enriched record's voicemail attribute is
\* absent or falsy, process has returned {success: true} and has made no
\* transcription submit, no status check, no signed-URL request and no
\* publish to the notification topic.
C1_SkipRule ==
  (Enriched /\ Falsy(Get(voicemail, "voicemail"))) =>
    /\ pc = "done"
    /\ outcome = Returned(Success)
    /\ \A i \in 1..Len(trace) :
         trace[i].op = "call" =>
           /\ trace[i].fn \notin {"transcribe.startTranscriptionJob",
                                  "transcribe.getTranscriptionJob",
                                  "s3.getSignedUrl"}
           /\ trace[i].fn = "sns.publish" =>
                trace[i].arg.topicArn # NOTIFICATION_TOPIC

\* The skip rule applied to a record whose voicemail attribute is present
\* but empty.
C1_Witness ==
  /\ Enriched
  /\ "voicemail" \in DOMAIN voicemail
  /\ voicemail["voicemail"] = <<>>
  /\ pc = "done"
  /\ outcome = Returned(Success)

\* C2 (no partial-success notification): the end-user notification is asked
\* for at most once, and only after the log search, startJob, awaitJob and
\* the signed-URL request have all returned and no main-pipeline call has
\* failed; once any stage has raised, no end-user notification is published.
C2_NoPartialSuccess ==
  /\ Cardinality(NotificationCalls) <= 1
  /\ \A i \in NotificationCalls :
       /\ \E j \in Entries("return", "cwl.filterLogEvents", "main") : j < i
       /\ \E j \in Entries("return", "transcribe.startTranscriptionJob", "main") :
            j < i
       /\ awaitResult.kind = "returned"
       /\ \E j \in Entries("return", "s3.getSignedUrl", "main") : j < i
       /\ \A j \in MainEntries("fail") : j > i
  /\ (err # NoError \/ outcome.kind = "raised") => NotificationsPublished = {}

\* The full pipeline completed and the one notification was published.
C2_Witness ==
  /\ pc = "done"
  /\ Cardinality(NotificationsPublished) = 1
  /\ outcome = Returned(Success)

\* C3 (error boundary): when a main-pipeline stage has raised and the
\* invocation has ended, exactly one alert publish was attempted and process
\* raised that same error; and when the job reported FAILED, process raised
\* the transcription failure after exactly one alert publish, with no
\* signed-URL request and no end-user notification.
C3_ErrorBoundary ==
  /\ (pc = "done" /\ err # NoError) =>
       /\ Cardinality(AlertCalls) = 1
       /\ outcome = Raised(err)
  /\ (pc = "done" /\ caller = "process"
        /\ job.TranscriptionJobStatus = TRANSCRIBE_FAILED) =>
       /\ Cardinality(AlertCalls) = 1
       /\ outcome = Raised(MkError("Error", <<"Transcription failure: ">>
                                            \o job.FailureReason))
       /\ Entries("call", "s3.getSignedUrl", "main") = {}
       /\ NotificationCalls = {}

\* C4 (the alert's failure does not mask the error): when a stage raised
\* error E and the alert publish failed, process ends by raising E.
C4_AlertFailureDoesNotMask ==
  (pc = "done" /\ Entries("fail", "sns.publish", "alert") # {}) =>
    outcome = Raised(err)

C6_LoginFailureSwallowed ==
  agentPublish = "rejected" =>
    /\ \E i \in 1..Len(logged) : logged[i] = ServiceError("sns.publish", "agent")
    /\ ~unhandledRejection

\* C7 (stage ordering): the main-pipeline calls are issued in the order log
\* search, transcription submit, status checks, transcript fetch, signed-URL
\* request, notification publish; only the status check repeats; a call is
\* issued only when every earlier call has returned and the stage before it
\* has been made; and at most one call of the pipeline is in flight.
StageRank(fn) ==
  IF fn = "cwl.filterLogEvents" THEN 1
  ELSE IF fn = "transcribe.startTranscriptionJob" THEN 2
  ELSE IF fn = "transcribe.getTranscriptionJob" THEN 3
  ELSE IF fn = "axios.get" THEN 4
  ELSE IF fn = "s3.getSignedUrl" THEN 5
  ELSE 6

\* The stage whose call must have returned before a call of fn.
StageBefore(fn) ==
  IF fn = "transcribe.startTranscriptionJob" THEN "cwl.filterLogEvents"
  ELSE IF fn = "transcribe.getTranscriptionJob"
    THEN "transcribe.startTranscriptionJob"
  ELSE IF fn \in {"axios.get", "s3.getSignedUrl"}
    THEN "transcribe.getTranscriptionJob"
  ELSE "s3.getSignedUrl"

PipelineEntries(op) ==
  {i \in 1..Len(trace) : trace[i].op = op /\ trace[i].by \in {"main", "alert"}}

C7_StageOrdering ==
  /\ \A i, j \in MainEntries("call") :
       i < j =>
         \/ StageRank(trace[i].fn) < StageRank(trace[j].fn)
         \/ /\ trace[i].fn = "transcribe.getTranscriptionJob"
            /\ trace[j].fn = "transcribe.getTranscriptionJob"
  /\ \A i \in MainEntries("call") :
       /\ Cardinality({c \in MainEntries("call") : c < i})
            = Cardinality({r \in MainEntries("return") : r < i})
       /\ trace[i].fn # "cwl.filterLogEvents" =>
            \E r \in Entries("return", StageBefore(trace[i].fn), "main") : r < i
  /\ Cardinality(PipelineEntries("call"))
       - Cardinality(PipelineEntries("return"))
       - Cardinality(PipelineEntries("fail")) \in {0, 1}

\* A complete run with two status checks and a transcript fetch.
C7_Witness ==
  /\ pc = "done"
  /\ NotificationsPublished # {}
  /\ Cardinality(Entries("call", "transcribe.getTranscriptionJob", "main")) = 2
  /\ Entries("return", "axios.get", "main") # {}

\* C8 (an undefined transcript is a failure): when awaitJob returned no
\* transcript because every status check found the job pending, process
\* publishes no end-user notification and does not return success.
C8_UndefinedTranscriptIsFailure ==
  (/\ caller = "process"
   /\ awaitResult = Returned(Undefined)
   /\ job.TranscriptionJobStatus = TRANSCRIBE_PENDING) =>
    /\ NotificationCalls = {}
    /\ outcome # Returned(Success)

\* C9 (outcome of awaitJob): when awaitJob has ended and no collaborator call
\* failed, exactly one of three cases holds, by the last observed status:
\* COMPLETED, the document at the job's result location was fetched and the
\* first segment, or nothing when there is none, was returned; FAILED, an
\* error carrying the failure reason was raised and nothing was fetched; any
\* other status, nothing was returned, nothing raised and nothing fetched.
C9_AwaitJobOutcome ==
  (pc = "aj_done" /\ MainEntries("fail") = {}) =>
    LET fetches == Entries("call", "axios.get", "main")
        fetched == Entries("return", "axios.get", "main")
        status == job.TranscriptionJobStatus
    IN \/ /\ status = "COMPLETED"
          /\ Cardinality(fetches) = 1
          /\ \A i \in fetches : trace[i].arg = job.TranscriptFileUri
          /\ \E i \in fetched :
               awaitResult =
                 Returned(IF trace[i].arg = <<>> THEN Undefined
                          ELSE trace[i].arg[1].transcript)
       \/ /\ status = "FAILED"
          /\ fetches = {}
          /\ awaitResult.kind = "raised"
          /\ awaitResult.error.message =
               <<"Transcription failure: ">> \o job.FailureReason
       \/ /\ status \notin {"COMPLETED", "FAILED"}
          /\ fetches = {}
          /\ awaitResult = Returned(Undefined)

\* A completed job whose document holds two segments: the first is returned.
C9_Witness ==
  /\ pc = "aj_done"
  /\ job.TranscriptionJobStatus = "COMPLETED"
  /\ awaitResult = Returned(<<"hello">>)
  /\ \E i \in Entries("return", "axios.get", "main") : Len(trace[i].arg) = 2

\* C10 (poll-interval arithmetic): the wait between status checks is set
\* once, before the loop, to (waitSeconds * 1000 - 60000) / 6 ms and every
\* wait after the initial one is that value; for waitSeconds = 240 it is
\* 30000 ms; and in a run where every check reported pending the initial
\* wait plus all later waits is at most waitSeconds * 1000 ms, for every
\* budget of at least the initial delay.
RECURSIVE TotalSixths(_)
TotalSixths(ws) ==
  IF ws = <<>> THEN 0
  ELSE (Head(ws).num * 6) \div Head(ws).den + TotalSixths(Tail(ws))

C10_PollInterval ==
  /\ pc \in {"aj_getJob", "aj_retryWait", "aj_fetch", "aj_done"} =>
       waitBetweenRetries = Ms(waitSeconds * 1000 - 60000, 6)
  /\ \A i \in 1..Len(waits) :
       waits[i] = IF i = 1 THEN Ms(60000, 1)
                  ELSE Ms(waitSeconds * 1000 - 60000, 6)
  /\ waitSeconds = 240 =>
       \A i \in 2..Len(waits) : waits[i].num = 30000 * waits[i].den
  /\ (/\ pc = "aj_done"
      /\ triesLeft = 0
      /\ job.TranscriptionJobStatus = "IN_PROGRESS"
      /\ MainEntries("fail") = {}
      /\ waitSeconds * 1000 >= 60000) =>
       /\ Len(waits) = 7
       /\ TotalSixths(waits) <= 6 * waitSeconds * 1000

\* A fully pending run with the budget of process, 240 s: six waits of
\* 30000 ms after the initial one.
C10_Witness ==
  /\ pc = "aj_done"
  /\ waitSeconds = 240
  /\ job.TranscriptionJobStatus = "IN_PROGRESS"
  /\ Len(waits) = 7
  /\ awaitResult = Returned(Undefined)

----------------------------------------------------------------------------
(* Claims C11-C20                                                          *)

\* The status checks of the transcription job, asked for and answered.
StatusChecks == Entries("call", "transcribe.getTranscriptionJob", "main")

StatusAnswers == Entries("return", "transcribe.getTranscriptionJob", "main")

PendingAnswers ==
  {i \in StatusAnswers : trace[i].arg.TranscriptionJobStatus = "IN_PROGRESS"}

\* C11 (bounded polling): every call of awaitJob ends, given that timers
\* fire and calls return or fail; it asks for exactly one initial wait of
\* 60000 ms and makes at most 6 status checks however long the job stays
\* pending; and once awaitJob has ended the job is not polled again.
C11_BoundedPolling ==
  /\ [](/\ Cardinality(StatusChecks) <= 6
        /\ Len(waits) >= 1
        /\ {i \in 1..Len(waits) : waits[i] = Ms(60000, 1)} = {1})
  /\ <>(pc = "aj_done")
  /\ [][pc = "aj_done" => StatusChecks' = StatusChecks]_vars

\* The job stayed pending through all six status checks and awaitJob ended.
C11_Witness ==
  /\ pc = "aj_done"
  /\ Cardinality(StatusChecks) = 6
  /\ Cardinality(PendingAnswers) = 6
  /\ MainEntries("fail") = {}

\* C12 (early exit): no status check is made before the initial wait has
\* elapsed; and once a status check has observed a status other than
\* IN_PROGRESS there is no later status check, and no wait beyond the
\* initial one and the one after each pending answer.
C12_EarlyExit ==
  /\ pc = "aj_initialWait" => StatusChecks = {}
  /\ \A r \in StatusAnswers \ PendingAnswers :
       /\ \A c \in StatusChecks : c < r
       /\ \A a \in StatusAnswers : a <= r
       /\ Len(waits) = 1 + Cardinality(PendingAnswers)

\* The second status check found the job failed: two checks, two waits.
C12_Witness ==
  /\ pc = "aj_done"
  /\ Cardinality(StatusChecks) = 2
  /\ Cardinality(PendingAnswers) = 1
  /\ job.TranscriptionJobStatus = "FAILED"
  /\ Len(waits) = 2

\* The ways of reading key as <prefix>/<contactId>_<suffix>: the positions
\* of the '/' and of the '_' with a non-empty run of [A-Za-z0-9-] between.
Readings(key) ==
  {d \in (1..Len(key)) \X (1..Len(key)) :
     /\ key[d[1]] = "/"
     /\ key[d[2]] = "_"
     /\ d[2] > d[1] + 1
     /\ \A m \in (d[1] + 1)..(d[2] - 1) : key[m] \in IdChars}

\* C13 (contact-id extraction) as stated: whichever way the key reads as
\* <prefix>/<contactId>_<suffix>, contactIdFromObjectKey returns that
\* contactId; a key with no such reading raises the format error.
C13_AnyReading ==
  pc \in {"filterLogEvents", "catch"} /\ err.name # "URIError" =>
    LET key == voicemail.objectKey
    IN /\ \A d \in Readings(key) :
            /\ pc = "filterLogEvents"
            /\ voicemail.contactId = SubSeq(key, d[1] + 1, d[2] - 1)
       /\ Readings(key) = {} => pc = "catch" /\ err.name = "TypeError"

\* C13 amended: the contactId returned is the one of the reading with the
\* rightmost '/', so the claim holds for suffixes without a further
\* '/<id>_'; a key with no reading raises the format error.
C13_LastReading ==
  pc \in {"filterLogEvents", "catch"} /\ err.name # "URIError" =>
    LET key == voicemail.objectKey
    IN /\ \A d \in Readings(key) :
            (\A e \in Readings(key) : e[1] <= d[1]) =>
              /\ pc = "filterLogEvents"
              /\ voicemail.contactId = SubSeq(key, d[1] + 1, d[2] - 1)
              /\ trace[Len(trace)] =
                   Call("cwl.filterLogEvents", "main", voicemail.contactId)
       /\ Readings(key) = {} => pc = "catch" /\ err.name = "TypeError"

\* A key that reads two ways with different ids: the later one is returned.
C13_Witness ==
  /\ pc = "filterLogEvents"
  /\ \E d, e \in Readings(voicemail.objectKey) :
       /\ d[1] < e[1]
       /\ SubSeq(voicemail.objectKey, d[1] + 1, d[2] - 1) # voicemail.contactId
       /\ SubSeq(voicemail.objectKey, e[1] + 1, e[2] - 1) = voicemail.contactId

\* The log search answered with one callingNumber entry and
\* addCallAttributes has merged it.
PhoneParsed ==
  /\ pc \in {"done", "startJob"}
  /\ "logEvents" \in DOMAIN event
  /\ Len(event.logEvents) = 1
  /\ event.logEvents[1].Key = "callingNumber"

IsDigits(s) == \A i \in 1..Len(s) : s[i] \in Digits

\* Ten digits in groups of 4-3-3 when they start with 04, of 2-4-4 otherwise.
Grouped(t) ==
  IF SubSeq(t, 1, 2) = <<"0", "4">>
    THEN SubSeq(t, 1, 4) \o <<" ">> \o SubSeq(t, 5, 7) \o <<" ">> \o SubSeq(t, 8, 10)
    ELSE SubSeq(t, 1, 2) \o <<" ">> \o SubSeq(t, 3, 6) \o <<" ">> \o SubSeq(t, 7, 10)

\* The places of n where the pattern \+61(\d+) matches.
IntlAt(n) ==
  {i \in 1..(Len(n) - 3) :
     SubSeq(n, i, i + 2) = <<"+", "6", "1">> /\ n[i + 3] \in Digits}

\* The digits that follow '+61' at place i, up to the first non-digit.
DigitsAfter(n, i) ==
  LET k == CHOOSE k \in (i + 3)..Len(n) :
             /\ IsDigits(SubSeq(n, i + 3, k))
             /\ k = Len(n) \/ n[k + 1] \notin Digits
  IN SubSeq(n, i + 3, k)

\* C14 (phone-number formatting) as stated: '+61' and nine digits become
\* '0' and the digits, grouped 4-3-3 when that starts with 04 and 2-4-4
\* otherwise (+61412345678 gives 0412 345 678, +61812341234 gives
\* 08 1234 1234); an input that does not match the international prefix
\* pattern is returned unchanged.
C14_PhoneFormat ==
  PhoneParsed =>
    LET n == event.logEvents[1].Value
        out == voicemail.callingNumber
    IN /\ (Len(n) = 12 /\ 1 \in IntlAt(n) /\ IsDigits(SubSeq(n, 4, 12))) =>
            out = Grouped(<<"0">> \o SubSeq(n, 4, 12))
       /\ n = <<"+", "6", "1", "4", "1", "2", "3", "4", "5", "6", "7", "8">> =>
            out = <<"0", "4", "1", "2", " ", "3", "4", "5", " ", "6", "7", "8">>
       /\ n = <<"+", "6", "1", "8", "1", "2", "3", "4", "1", "2", "3", "4">> =>
            out = <<"0", "8", " ", "1", "2", "3", "4", " ", "1", "2", "3", "4">>
       /\ IntlAt(n) = {} => out = n

\* C14 amended: where the pattern matches, the number becomes '0' and the
\* digits after the leftmost '+61', without the text around them; that, or
\* an input the pattern does not match, is grouped when it is exactly ten
\* digits and is returned as it is otherwise.
C14_PhoneFormatTenDigits ==
  PhoneParsed =>
    LET n == event.logEvents[1].Value
        out == voicemail.callingNumber
        local == IF IntlAt(n) = {} THEN n
                 ELSE <<"0">> \o DigitsAfter(n, SetMin(IntlAt(n)))
    IN /\ out = IF Len(local) = 10 /\ IsDigits(local) THEN Grouped(local)
                ELSE local
       /\ n = <<"+", "6", "1", "4", "1", "2", "3", "4", "5", "6", "7", "8">> =>
            out = <<"0", "4", "1", "2", " ", "3", "4", "5", " ", "6", "7", "8">>
       /\ n = <<"+", "6", "1", "8", "1", "2", "3", "4", "1", "2", "3", "4">> =>
            out = <<"0", "8", " ", "1", "2", "3", "4", " ", "1", "2", "3", "4">>

\* A ten-digit number without the prefix came back grouped.
C14_Witness ==
  /\ PhoneParsed
  /\ event.logEvents[1].Value =
       <<"0", "4", "1", "2", "3", "4", "5", "6", "7", "8">>
  /\ voicemail.callingNumber =
       <<"0", "4", "1", "2", " ", "3", "4", "5", " ", "6", "7", "8">>

\* C15 (job-name normalisation): _normalisedJobName replaces every
\* character outside [0-9A-Za-z._-] by '_', leaves every other character
\* and the length unchanged, and applied to its own result changes nothing.
C15_Normalisation ==
  \A i \in Entries("return", "_normalisedJobName", "direct") :
    LET in == IF i = 1 THEN jobName ELSE trace[i - 1].arg
        out == trace[i].arg
    IN /\ Len(out) = Len(in)
       /\ \A k \in 1..Len(in) :
            out[k] = IF in[k] \in Digits \cup UpperCase \cup LowerCase
                                  \cup {".", "_", "-"}
                       THEN in[k] ELSE "_"
       /\ i = 2 => out = in

\* A name with a character that is not allowed and a dot, normalised twice.
C15_Witness ==
  /\ Len(trace) = 2
  /\ trace[2].fn = "_normalisedJobName"
  /\ \E k, m \in 1..Len(jobName) :
       /\ jobName[k] \in {"/", ":", " "} /\ trace[1].arg[k] = "_"
       /\ jobName[m] = "." /\ trace[2].arg[m] = "."

\* The properties of the voicemail record before addCallAttributes.
RecordKeys ==
  {"bucketName", "creationDate", "objectKey", "objectUrl", "consoleUrl",
   "contactId"}

\* C16 (attribute parsing, last write wins): after addCallAttributes the
\* record holds, for each key some log entry carries, the formatted value of
\* the last entry with that key, and no attribute besides; an empty answer
\* of the log search adds nothing and raises nothing, and process then
\* returns success by the skip rule.
C16_LastWriteWins ==
  (pc \in {"done", "startJob"} /\ "logEvents" \in DOMAIN event) =>
    LET l == event.logEvents
        keys == {l[i].Key : i \in 1..Len(l)}
    IN /\ DOMAIN voicemail = RecordKeys \cup keys
       /\ \A k \in keys :
            LET last == SetMax({i \in 1..Len(l) : l[i].Key = k})
            IN voicemail[k] = formatAttribute(k, l[last].Value)
       /\ l = <<>> =>
            /\ pc = "done"
            /\ outcome = Returned(Success)
            /\ err = NoError

\* Two entries for the key voicemail, empty and then "true": the later one
\* is in the record and the transcription job is submitted.
C16_Witness ==
  /\ pc = "startJob"
  /\ "logEvents" \in DOMAIN event
  /\ Len(event.logEvents) = 2
  /\ event.logEvents[1].Key = "voicemail" /\ event.logEvents[1].Value = <<>>
  /\ event.logEvents[2].Key = "voicemail"
  /\ voicemail.voicemail = <<"true">>

\* C17 (job-name uniqueness): two invocations for the same storage object,
\* concurrent ones included, submit transcription jobs of different names.
C17_UniqueJobNames ==
  \A i, j \in 1..Len(trace) :
    (/\ i # j
     /\ trace[i].fn = "transcribe.startTranscriptionJob"
     /\ trace[j].fn = "transcribe.startTranscriptionJob"
     /\ trace[i].arg.MediaFileUri = trace[j].arg.MediaFileUri) =>
      trace[i].arg.TranscriptionJobName # trace[j].arg.TranscriptionJobName

\* C18 (format errors fail fast and still alert): when the decoded key
\* yields no contact id, process makes no log-search, transcription,
\* signed-URL or notification call, attempts exactly one alert publish, and
\* raises the format error.
C18_FormatErrorFailsFast ==
  (pc = "done" /\ err = MkError("TypeError", <<"Unexpected objectKey format">>)) =>
    /\ MainEntries("call") = {}
    /\ Cardinality(AlertCalls) = 1
    /\ outcome = Raised(err)

\* C19 (no automatic retry): log search, transcription submit, transcript
\* fetch, signed-URL request and notification publish are each issued at
\* most once in an invocation; after a failed call of the main pipeline, a
\* status check included, no further call of it is issued; and a status
\* check other than the first directly follows a pending answer.
C19_NoRetry ==
  /\ \A fn \in {"cwl.filterLogEvents", "transcribe.startTranscriptionJob",
               "axios.get", "s3.getSignedUrl", "sns.publish"} :
       Cardinality(Entries("call", fn, "main")) <= 1
  /\ \A f \in MainEntries("fail") : \A c \in MainEntries("call") : c < f
  /\ \A c \in StatusChecks :
       \/ \A d \in StatusChecks : c <= d
       \/ \E r \in PendingAnswers :
            /\ r < c
            /\ \A m \in (r + 1)..(c - 1) : trace[m].by # "main"

\* A status check failed after a pending one, and process has ended: two
\* status checks were made and nothing after them.
C19_Witness ==
  /\ pc = "done"
  /\ caller = "process"
  /\ Cardinality(StatusChecks) = 2
  /\ Entries("fail", "transcribe.getTranscriptionJob", "main") # {}
  /\ outcome.kind = "raised"

\* C20 (the agent-availability step precedes the main pipeline): the
\* agent-availability publish has returned or failed before the storage
\* event's details are extracted and before any call of the main pipeline
\* is issued, so it is never in flight during a main-pipeline stage.
C20_AgentStepPrecedes ==
  /\ pc \notin {"sendLoginEvent", "getS3ObjectInfo"} => agentPublish # "inflight"
  /\ \A c \in MainEntries("call") :
       \A a \in Entries("call", "sns.publish", "agent") :
         \E e \in Entries("return", "sns.publish", "agent")
                 \cup Entries("fail", "sns.publish", "agent") : a < e /\ e < c

----------------------------------------------------------------------------
(* Claims C21-C26                                                          *)

\* The text of s after its last character of cs, or all of s.
AfterLast(s, cs) ==
  LET ps == {i \in 1..Len(s) : s[i] \in cs}
  IN IF ps = {} THEN s ELSE SubSeq(s, SetMax(ps) + 1, Len(s))

\* C21 (format hint of startJob): a supplied media format is submitted
\* unchanged; when none is supplied the submitted format is the text after
\* the last '.' of the last path segment of the media location, and it is
\* 'wav' when that segment has no '.' or nothing after its last '.'.  (A
\* segment whose only '.' is its first character is left open.)
C21_FormatHint ==
  pc = "startJobSubmitted" =>
    LET sent == trace[1].arg.MediaFormat
        name == AfterLast(event.mediaFileUri, {"/"})
        dots == {i \in 1..Len(name) : name[i] = "."}
    IN /\ trace[1].arg.MediaFileUri = event.mediaFileUri
       /\ event.mediaFormat # Undefined => sent = event.mediaFormat
       /\ (event.mediaFormat = Undefined /\ dots = {}) => sent = <<"w", "a", "v">>
       /\ (event.mediaFormat = Undefined /\ dots # {} /\ SetMax(dots) > 1) =>
            sent = IF SetMax(dots) = Len(name) THEN <<"w", "a", "v">>
                   ELSE AfterLast(name, {"."})

\* C22 (enrichment only augments the record): after addCallAttributes the
\* properties taken from the triggering event (bucketName, objectKey,
\* objectUrl, consoleUrl, creationDate) and contactId have the values they
\* had before, whatever log entries the log search returned.
C22_EnrichmentAugments ==
  (pc \in {"done", "startJob"} /\ "logEvents" \in DOMAIN event) =>
    LET before == getS3ObjectInfo(event.Records).value
        search == Entries("call", "cwl.filterLogEvents", "main")
    IN /\ \A k \in {"bucketName", "objectKey", "objectUrl", "consoleUrl",
                    "creationDate"} : voicemail[k] = before[k]
       /\ \A i \in search : voicemail.contactId = trace[i].arg

\* C23 (the result of awaitJob reflects the job at the end of the budget):
\* when awaitJob has ended after status checks that all reported pending,
\* every wait it asked for, the last one too, was followed by a status
\* check: there are as many status checks as waits.
C23_CheckAfterLastWait ==
  (/\ pc = "aj_done"
   /\ StatusChecks # {}
   /\ Cardinality(PendingAnswers) = Cardinality(StatusChecks)) =>
    Cardinality(StatusChecks) = Len(waits)

\* The browser given to run was closed, or would not close, before
\* position i of the history.
ClosedBefore(i) ==
  \E j \in 1..(i - 1) :
    trace[j].fn = "browser.close" /\ trace[j].op \in {"return", "fail"}

\* C24 (browser cleanup): whenever run has ended, by returning or by
\* raising, browser.close() has been called on the browser it was given;
\* and when login has ended after launching a browser, that browser has
\* been closed.
C24_BrowserClosed ==
  /\ \A i \in 1..Len(trace) :
       (trace[i].fn = "run" /\ trace[i].op \in {"return", "fail"}) =>
         ClosedBefore(i)
  /\ (/\ pc = "done"
      /\ caller = "login"
      /\ Entries("return", "puppeteer.launch", "login") # {}) =>
       ClosedBefore(Len(trace) + 1)

AvailableOrConnected ==
  {<<"A", "v", "a", "i", "l", "a", "b", "l", "e">>,
   <<"C", "o", "n", "n", "e", "c", "t", "e", "d">>}

\* C25 (makeAgentAvailable), for calls in which no page operation failed:
\* when the status read first is Available or Connected the button is not
\* clicked and the function returns; for every other status, null
\* included, the button is clicked exactly once, and the function returns
\* if the status read afterwards is Available or Connected and raises
\* 'Failed to make agent available' if it is not.
C25_MakeAgentAvailable ==
  \A m, n \in 1..Len(trace) :
    (/\ trace[m].fn = "makeAgentAvailable"
     /\ trace[m].op = "call"
     /\ trace[n].fn = "makeAgentAvailable"
     /\ trace[n].op \in {"return", "fail"}
     /\ \A k \in (m + 1)..(n - 1) : trace[k].op = "return") =>
      LET first == trace[m + 1].arg
          last == trace[n - 1].arg
          clicks == {k \in m..n : trace[k].fn = "page.click"}
      IN IF first \in AvailableOrConnected
           THEN clicks = {} /\ trace[n].op = "return"
           ELSE /\ Cardinality(clicks) = 1
                /\ last \in AvailableOrConnected => trace[n].op = "return"
                /\ last \notin AvailableOrConnected =>
                     /\ trace[n].op = "fail"
                     /\ trace[n].arg =
                          MkError("Error", <<"Failed to make agent available">>)

\* C26 (loginAsync reports trigger failures): when the publish of the
\* login-trigger message has failed, loginAsync has published, or tried to
\* publish, the 'Failure triggering voicemail agent to be available' alert
\* and has raised; it has returned {success: null, deferred: true} only
\* when that publish did not fail.
C26_TriggerFailureReported ==
  (caller = "loginAsync" /\ Entries("fail", "sns.publish", "agent") # {}) =>
    /\ \E i \in AlertCalls :
         trace[i].arg.message[1] =
           "Failure triggering voicemail agent to be available:\n        "
    /\ outcome.kind = "raised"
    /\ outcome # Returned(<<"{success: null, deferred: true}">>)

====
